---------------------------- MODULE Spec2Model ----------------------------
(* A model of DLSite-Collection-Helper: the record store (table dlsite_ids), *)
(* the reconciliation scan check_folder_for_ids and the GUI handlers that    *)
(* change the store.  Python strings are sequences of one-character strings. *)
EXTENDS Integers, Sequences, FiniteSets, TLC

VARIABLES store, FOLDER_PATH, fsStatus, listing, last, connections,
          config_file, config, current_theme,
          backup_dir, now,
          dir_entry, parse_result,
          handler_exit,
          columns, backup_copy,
          call_stack

\* config.json, and what main keeps of the configuration it loaded
configVars == <<config_file, config, current_theme>>

\* the directory db-backup, and the clock
backupVars == <<backup_dir, now>>

\* a name os.listdir returned, and what the parser returned for it
parserVars == <<dir_entry, parse_result>>

\* the columns of the table dlsite_ids in the data file, and what the newest
\* startup backup holds
dataFileVars == <<columns, backup_copy>>

vars == <<store, FOLDER_PATH, fsStatus, listing, last, connections,
          configVars, backupVars, parserVars, handler_exit, dataFileVars, call_stack>>

(***************************************************************************)
(* Bounds and input alphabets                                              *)
(***************************************************************************)

\* largest rowid the model lets the table grow to
MaxRowid == 2

\* Python's None, as a string value no user text or filename equals
None == <<"<None>">>

Digits == {"0", "1", "2", "3", "4", "5", "6", "7", "8", "9"}

RJ1 == <<"R", "J", "1">>
rj1 == <<"r", "j", "1">>
v1 == <<"v", "1">>

\* what the user may type in the ID field of the add and edit dialogs
IdInputs == {<<>>, RJ1, rj1}

\* what the user may type in the version field
VersionInputs == {<<>>, <<"1">>, <<"V", "1">>}

\* the Tested checkbutton's onvalue and offvalue
TestedValues == {"Yes", "No"}

\* names that may exist in the configured folder
FileA == <<"R", "J", "1", ".", "z">>
FileB == <<"R", "J", "1", "(", "v", "1", ")", ".", "z">>
FileNames == {FileA, FileB}

\* the directory the user picks in the folder dialog
Folder == <<"/", "d">>

\* what a name is in the folder: nothing, a regular file directly in it, or a
\* subdirectory of that name (which holds a regular file of that name too)
Kinds == {"none", "file", "dir"}

(***************************************************************************)
(* Python string operations                                                *)
(***************************************************************************)

Truthy(s) == s # None /\ s # <<>>

LowerChar(c) == CASE c = "V" -> "v" [] c = "R" -> "r" [] c = "J" -> "j" [] OTHER -> c

UpperChar(c) == CASE c = "v" -> "V" [] c = "r" -> "R" [] c = "j" -> "J" [] OTHER -> c

lower(s) == [i \in 1..Len(s) |-> LowerChar(s[i])]

upper(s) == [i \in 1..Len(s) |-> UpperChar(s[i])]

startswith(s, c) == Len(s) >= 1 /\ s[1] = c

RECURSIVE lstrip(_)
lstrip(s) == IF s # <<>> /\ s[1] = " " THEN lstrip(Tail(s)) ELSE s

RECURSIVE rstrip(_)
rstrip(s) == IF s # <<>> /\ s[Len(s)] = " " THEN rstrip(SubSeq(s, 1, Len(s) - 1)) ELSE s

strip(s) == rstrip(lstrip(s))

\* the largest index of s holding c, 0 when there is none (str.rfind + 1)
rfind(s, c) == IF \E i \in 1..Len(s) : s[i] = c
               THEN CHOOSE i \in 1..Len(s) : s[i] = c /\ \A j \in (i+1)..Len(s) : s[j] # c
               ELSE 0

\* splitext's cut at the last dot, index d, unless only dots precede it
splitext_cut(p, d) == IF d > 0 /\ \E k \in 1..(d-1) : p[k] # "."
                      THEN SubSeq(p, 1, d - 1)
                      ELSE p

\* os.path.splitext(p)[0] for a name without path separators
splitext_root(p) == splitext_cut(p, rfind(p, "."))

(***************************************************************************)
(* file_utils.extract_id_and_version                                       *)
(***************************************************************************)

\* the length of the run of digits of s that starts at index i
RECURSIVE DigitRun(_, _)
DigitRun(s, i) == IF i <= Len(s) /\ s[i] \in Digits THEN 1 + DigitRun(s, i + 1) ELSE 0

\* the indexes of s where RJ\d+ matches
rj_starts(s) == {i \in 1..Len(s) : /\ i + 2 <= Len(s)
                                   /\ s[i] = "R"
                                   /\ s[i+1] = "J"
                                   /\ s[i+2] \in Digits}

\* the greedy match of RJ\d+ that starts at index i
rj_group(s, i) == SubSeq(s, i, i + 1 + DigitRun(s, i + 2))

\* the leftmost match among starts, or None
rj_leftmost(s, starts) ==
    IF starts = {} THEN None
    ELSE rj_group(s, CHOOSE x \in starts : \A y \in starts : x <= y)

\* re.search(r'(RJ\d+)', s).group(1), or None
SearchRJ(s) == rj_leftmost(s, rj_starts(s))

\* t matches \d+(\.\d+)* in full
IsNumTok(t) == /\ t # <<>>
               /\ \A i \in 1..Len(t) : t[i] \in Digits \/ t[i] = "."
               /\ t[1] \in Digits
               /\ t[Len(t)] \in Digits
               /\ \A i \in 1..(Len(t) - 1) : ~(t[i] = "." /\ t[i+1] = ".")

\* t matches v?(\d+(\.\d+)*) in full
IsVTok(t) == IsNumTok(t) \/ (startswith(t, "v") /\ IsNumTok(Tail(t)))

\* the (open, close) index pairs of s where \( token \) matches; the token is
\* v?(\d+(\.\d+)*) with allowV and \d+(\.\d+)* without.  A token holds no
\* parenthesis, so a match that starts at an opening parenthesis ends at the
\* first closing one after it.
paren_hits(s, allowV) ==
    {p \in (1..Len(s)) \X (1..Len(s)) :
        /\ p[1] < p[2]
        /\ s[p[1]] = "("
        /\ s[p[2]] = ")"
        /\ IF allowV THEN IsVTok(SubSeq(s, p[1] + 1, p[2] - 1))
                     ELSE IsNumTok(SubSeq(s, p[1] + 1, p[2] - 1))}

\* group(1) of the match at the index pair h
paren_group(s, h) == SubSeq(s, h[1] + 1, h[2] - 1)

\* group(1) of the leftmost match among hits, or None
paren_leftmost(s, hits) ==
    IF hits = {} THEN None
    ELSE paren_group(s, CHOOSE x \in hits : \A y \in hits : x[1] <= y[1])

\* re.search of the parenthesized token in s: group(1), or None
SearchParen(s, allowV) == paren_leftmost(s, paren_hits(s, allowV))

\* the second search runs only when the first found nothing
version_match(name, first) == IF first # None THEN first ELSE SearchParen(name, FALSE)

\* the prefix is removed if present and added back
standardized(raw_version) ==
    <<"v">> \o (IF startswith(lower(raw_version), "v") THEN Tail(raw_version) ELSE raw_version)

\* the returned tuple, from the two searches' results
id_and_version(dlsite_id, raw_version) ==
    IF dlsite_id = None THEN <<None, None>>
    ELSE IF raw_version # None THEN <<dlsite_id, standardized(raw_version)>>
         ELSE <<dlsite_id, None>>

parse_name(name_without_ext) ==
    id_and_version(SearchRJ(name_without_ext),
                   version_match(name_without_ext, SearchParen(name_without_ext, TRUE)))

\* the (dlsite_id, version) pair the parser returns for a filename
extract_id_and_version(filename) == parse_name(splitext_root(filename))

(***************************************************************************)
(* The table dlsite_ids: a function from rowid to row                      *)
(***************************************************************************)

EmptyStore == << >>

Row(dlsite_id, tested, version, marked) ==
    [dlsite_id |-> dlsite_id, tested |-> tested, version |-> version, marked |-> marked]

\* the rowid SQLite gives an inserted row: one more than the largest in use
NextRowid(db) == IF DOMAIN db = {} THEN 1
                 ELSE 1 + (CHOOSE m \in DOMAIN db : \A r \in DOMAIN db : r <= m)

\* INSERT INTO dlsite_ids (dlsite_id, version, tested): marked takes DEFAULT 0
sql_insert(db, dlsite_id, version, tested) ==
    [r \in DOMAIN db \cup {NextRowid(db)} |->
        IF r \in DOMAIN db THEN db[r] ELSE Row(dlsite_id, tested, version, 0)]

\* UPDATE dlsite_ids SET dlsite_id, tested, version WHERE rowid = entry_id
sql_update(db, entry_id, dlsite_id, tested, version) ==
    [r \in DOMAIN db |->
        IF r = entry_id
        THEN [db[r] EXCEPT !.dlsite_id = dlsite_id, !.tested = tested, !.version = version]
        ELSE db[r]]

\* DELETE FROM dlsite_ids WHERE rowid = entry_id
sql_delete(db, entry_id) == [r \in DOMAIN db \ {entry_id} |-> db[r]]

\* cursor.fetchone() on rows selected in rowid order: the first rowid, 0 for None
fetchone(rows) == IF rows = {} THEN 0 ELSE CHOOSE r \in rows : \A x \in rows : r <= x

\* the reset with the flag inverted instead of cleared
reset_all_marked_status_flip(db) ==
    [r \in DOMAIN db |-> [db[r] EXCEPT !.marked = 1 - db[r].marked]]

\* the reset left out
reset_all_marked_status_skip(db) == db

reset_all_marked_status(db) == [r \in DOMAIN db |-> [db[r] EXCEPT !.marked = 0]]

update_marked_status(db, rowid, marked) ==
    [db EXCEPT ![rowid].marked = IF marked THEN 1 ELSE 0]

(***************************************************************************)
(* gui.check_folder_for_ids                                                *)
(***************************************************************************)

\* os.listdir(FOLDER_PATH): the names directly in the folder
os_listdir(lst) == {f \in DOMAIN lst : lst[f] \in {"file", "dir"}}

\* os.path.isfile(os.path.join(FOLDER_PATH, f))
isfile(lst, f) == lst[f] = "file"

\* the listing without the isfile filter
list_files_unfiltered(lst) == os_listdir(lst)

\* files = [f for f in os.listdir(FOLDER_PATH) if os.path.isfile(...)]
list_files(lst) == {f \in os_listdir(lst) : isfile(lst, f)}

\* the scan's SELECT with only "version IS NULL" for a file without version
scan_query_null_only(db, dlsite_id, version) ==
    {r \in DOMAIN db :
        /\ db[r].dlsite_id = dlsite_id
        /\ IF Truthy(version) THEN db[r].version = version ELSE db[r].version = None}

\* the rows the scan's SELECT returns for a parsed (dlsite_id, version)
scan_query(db, dlsite_id, version) ==
    {r \in DOMAIN db :
        /\ db[r].dlsite_id = dlsite_id
        /\ IF Truthy(version)
           THEN db[r].version = version
           ELSE db[r].version = None \/ db[r].version = <<>>}

\* if result: update_marked_status(cursor, rowid, 1)
mark_result(db, result) == IF result # 0 THEN update_marked_status(db, result, TRUE) ELSE db

\* the loop body that adds a row for a file no row matches
mark_parsed_autoadd(db, parsed) ==
    IF ~Truthy(parsed[1]) THEN db
    ELSE IF fetchone(scan_query(db, parsed[1], parsed[2])) # 0
         THEN update_marked_status(db, fetchone(scan_query(db, parsed[1], parsed[2])), TRUE)
         ELSE sql_insert(db, parsed[1], IF Truthy(parsed[2]) THEN parsed[2] ELSE <<>>, "No")

\* if dlsite_id: run the query and mark the row fetchone returns
mark_parsed(db, parsed) ==
    IF Truthy(parsed[1])
    THEN mark_result(db, fetchone(scan_query(db, parsed[1], parsed[2])))
    ELSE db

\* extract_id_and_version on the names the folder may hold, computed once
ParsedName == [f \in FileNames |-> extract_id_and_version(f)]

\* the body of the scan's loop for one filename
process_file(db, filename) == mark_parsed(db, ParsedName[filename])

\* the scan's loop over files
RECURSIVE process_files(_, _)
process_files(db, files) ==
    IF files = {} THEN db
    ELSE process_files(process_file(db, CHOOSE x \in files : TRUE),
                       files \ {CHOOSE x \in files : TRUE})

\* the scan once the folder check has passed: the reset, then the listing
\* and the loop
scan_existing(reset, status, lst) ==
    IF status = "unlistable"
    THEN [db |-> reset, scan |-> "failed"]
    ELSE [db |-> process_files(reset, list_files(lst)), scan |-> "done"]

\* the scan: the store it leaves and how it ended ("noop": the folder check
\* returned at once; "failed": os.listdir raised; "done": every file was
\* processed)
check_folder_for_ids(db, path, status, lst) ==
    IF path = None \/ status = "missing"
    THEN [db |-> db, scan |-> "noop"]
    ELSE scan_existing(reset_all_marked_status(db), status, lst)

(***************************************************************************)
(* file_utils.load_config and file_utils.save_config.  A Python dict       *)
(* literal and a JSON object are sequences of <<key, value>> pairs in      *)
(* their order; the dict load_config returns is a function of its keys.    *)
(***************************************************************************)

\* a JSON value: an "object" or an "array" with its items in order, or a
\* "scalar" (a number, true, false, null)
Json(type, items) == [type |-> type, items |-> items]

\* config.json: "missing"; "unreadable" (open raises, for reading and for
\* writing); "garbage" (json.load raises); "json" with the value it holds
ConfigFile(kind, value) == [kind |-> kind, value |-> value]

NoConfigFile == ConfigFile("missing", Json("scalar", <<>>))

default_config == [folder_path |-> None, debug_enabled |-> FALSE, theme |-> "light"]

required_keys == {"folder_path", "debug_enabled", "theme"}

\* d[k] = v
dict_setitem(d, k, v) == [x \in DOMAIN d \cup {k} |-> IF x = k THEN v ELSE d[x]]

\* dict.update(d, items): the items are taken in order, each must be a pair,
\* and the first that is not raises with the earlier ones already in d
RECURSIVE dict_update(_, _)
dict_update(d, items) ==
    IF items = <<>> THEN [dict |-> d, raised |-> FALSE]
    ELSE IF Len(Head(items)) = 2
         THEN dict_update(dict_setitem(d, Head(items)[1], Head(items)[2]), Tail(items))
         ELSE [dict |-> d, raised |-> TRUE]

\* what load_config returns, and whether it printed "Error loading config"
Loaded(cfg, error) == [config |-> cfg, error |-> error]

\* default_config.update(loaded_config) inside the try
update_defaults(loaded_config) ==
    IF loaded_config.type = "scalar"
    THEN Loaded(default_config, TRUE)
    ELSE Loaded(dict_update(default_config, loaded_config.items).dict,
                dict_update(default_config, loaded_config.items).raised)

load_config(file) ==
    IF file.kind = "missing" THEN Loaded(default_config, FALSE)
    ELSE IF file.kind \in {"unreadable", "garbage"} THEN Loaded(default_config, TRUE)
    ELSE update_defaults(file.value)

\* the keys of a dict literal
dict_keys(cfg) == {cfg[i][1] : i \in DOMAIN cfg}

\* config.json once save_config(cfg) has returned
save_config(file, cfg) ==
    IF ~(required_keys \subseteq dict_keys(cfg)) THEN file
    ELSE IF file.kind = "unreadable" THEN file
    ELSE ConfigFile("json", Json("object", cfg))

(***************************************************************************)
(* The GUI handlers.  Every handler that changes the store ends with       *)
(* refresh_table(), whose default check_folder=True runs the scan first.   *)
(***************************************************************************)

\* what the last step was: the modal error it showed, how the scan it
\* invoked ended ("none": it invoked no scan), the rows whose present flag
\* that scan turned off, and whether it was a save whose (identifier,
\* version) pair another row held already
Outcome(msg, scan, cleared, taken) ==
    [msg |-> msg, scan |-> scan, cleared |-> cleared, taken |-> taken]

\* how the last handler ended: the exception it raised ("none": it
\* returned), and its dialog window ("none": it has no dialog)
HandlerExit(raised, dialog) == [raised |-> raised, dialog |-> dialog]

\* the name add_window in save_id's scope: a local of add_id only, and no
\* global of the module
add_window_in_scope == FALSE

\* add_window.destroy() as the last statement of save_id
add_window_destroy ==
    IF add_window_in_scope
    THEN HandlerExit("none", "destroyed")
    ELSE HandlerExit("NameError", "open")

\* window.destroy() on the window save_changes was passed
window_destroy == HandlerExit("none", "destroyed")

\* some row of db other than except holds the pair
PairTaken(db, dlsite_id, version, except) ==
    \E r \in DOMAIN db \ {except} : db[r].dlsite_id = dlsite_id /\ db[r].version = version

MsgEmptyId == "ID cannot be empty."
MsgDuplicate == "An entry with this ID and version already exists."

\* the version standardization of save_id and save_changes
standardize_version(version) ==
    IF version # <<>>
    THEN <<"v">> \o (IF startswith(lower(version), "v") THEN Tail(version) ELSE version)
    ELSE <<>>

\* the duplicate SELECT binding NULL for an empty version, which matches no row
save_id_duplicate_null(db, dlsite_id, version) ==
    /\ version # <<>>
    /\ fetchone({r \in DOMAIN db : db[r].dlsite_id = dlsite_id /\ db[r].version = version}) # 0

\* save_id's SELECT for a duplicate entry
save_id_duplicate(db, dlsite_id, version) ==
    fetchone({r \in DOMAIN db : db[r].dlsite_id = dlsite_id /\ db[r].version = version}) # 0

\* the duplicate SELECT with "rowid = ?" for "rowid != ?"
save_changes_duplicate_self(db, new_id, new_version, entry_id) ==
    fetchone({r \in DOMAIN db : /\ db[r].dlsite_id = new_id
                                /\ db[r].version = new_version
                                /\ r = entry_id}) # 0

\* save_changes' SELECT for a duplicate entry, which leaves the edited row out
save_changes_duplicate(db, new_id, new_version, entry_id) ==
    fetchone({r \in DOMAIN db : /\ db[r].dlsite_id = new_id
                                /\ db[r].version = new_version
                                /\ r # entry_id}) # 0

\* a get_connection() followed by conn.close()
OpenClose == <<"open", "close">>

\* the get_connection() and conn.close() calls of check_folder_for_ids, in
\* order: none when the folder check returns; the connection is opened before
\* the listing and closed after the loop, and then refresh_table(
\* check_folder=False) opens and closes its own
scan_connections(scan) ==
    CASE scan = "noop" -> <<>>
      [] scan = "failed" -> <<"open">>
      [] OTHER -> OpenClose \o OpenClose

\* refresh_table(check_folder=True): the scan, then the SELECT of the rows on
\* a connection of its own
refresh_connections(scan) == scan_connections(scan) \o OpenClose

\* how many connections a handler opened and on how many it called close()
Connections(events) ==
    [opened |-> Cardinality({i \in DOMAIN events : events[i] = "open"}),
     closed |-> Cardinality({i \in DOMAIN events : events[i] = "close"})]

\* the scan went from db to res
Scanned(db, res, taken) ==
    /\ store' = res.db
    /\ last' = Outcome("none", res.scan,
                       {r \in DOMAIN db : db[r].marked = 1 /\ res.db[r].marked = 0}, taken)

\* refresh_table(check_folder=True) once the store is db: the scan runs first
Refreshed(db, taken) ==
    Scanned(db, check_folder_for_ids(db, FOLDER_PATH, fsStatus, listing), taken)

\* a handler that ran its statement on a connection, closed it and called
\* refresh_table()
Saved(db, taken) ==
    /\ Refreshed(db, taken)
    /\ connections' = Connections(OpenClose \o refresh_connections(last'.scan))

\* a handler that returns after a modal error: no statement ran, no refresh
Rejected(msg, taken) ==
    /\ last' = Outcome(msg, "none", {}, taken)
    /\ connections' = Connections(IF msg = MsgDuplicate THEN OpenClose ELSE <<>>)
    /\ handler_exit' = HandlerExit("none", "open")
    /\ UNCHANGED store

\* save_id after the empty-ID check, with the standardized version
save_id_checked(dlsite_id, version, tested) ==
    IF save_id_duplicate(store, dlsite_id, version)
    THEN Rejected(MsgDuplicate, PairTaken(store, dlsite_id, version, 0))
    ELSE /\ NextRowid(store) <= MaxRowid
         /\ Saved(sql_insert(store, dlsite_id, version, tested),
                  PairTaken(store, dlsite_id, version, 0))
         /\ handler_exit' = add_window_destroy

save_id(dlsite_id, version, tested) ==
    /\ IF ~Truthy(dlsite_id)
       THEN Rejected(MsgEmptyId, PairTaken(store, dlsite_id, standardize_version(version), 0))
       ELSE save_id_checked(dlsite_id, standardize_version(version), tested)
    /\ UNCHANGED <<FOLDER_PATH, fsStatus, listing, configVars, backupVars, parserVars,
                   dataFileVars, call_stack>>

\* save_changes with the stripped ID and the standardized version
save_changes_checked(entry_id, new_id, new_version, new_tested) ==
    IF ~Truthy(new_id)
    THEN Rejected(MsgEmptyId, PairTaken(store, new_id, new_version, entry_id))
    ELSE IF save_changes_duplicate(store, new_id, new_version, entry_id)
         THEN Rejected(MsgDuplicate, PairTaken(store, new_id, new_version, entry_id))
         ELSE /\ Saved(sql_update(store, entry_id, new_id, new_tested, new_version),
                       PairTaken(store, new_id, new_version, entry_id))
              /\ handler_exit' = window_destroy

save_changes(entry_id, dlsite_id, version, tested) ==
    /\ save_changes_checked(entry_id, strip(dlsite_id),
                            standardize_version(strip(version)), tested)
    /\ UNCHANGED <<FOLDER_PATH, fsStatus, listing, configVars, backupVars, parserVars,
                   dataFileVars, call_stack>>

\* the user confirmed the deletion of the selected row
remove_entry(entry_id) ==
    /\ Saved(sql_delete(store, entry_id), FALSE)
    /\ handler_exit' = HandlerExit("none", "none")
    /\ UNCHANGED <<FOLDER_PATH, fsStatus, listing, configVars, backupVars, parserVars,
                   dataFileVars, call_stack>>

\* the Refresh button, and the search field's <Return>
refresh_table ==
    /\ Refreshed(store, FALSE)
    /\ connections' = Connections(refresh_connections(last'.scan))
    /\ handler_exit' = HandlerExit("none", "none")
    /\ UNCHANGED <<FOLDER_PATH, fsStatus, listing, configVars, backupVars, parserVars,
                   dataFileVars, call_stack>>

\* the user picked the folder in filedialog.askdirectory(): an existing
\* directory, which holds lst; lst is any listing the first time and what
\* the folder holds now when it is picked again
save_folder_path(lst) ==
    /\ fsStatus # "missing"
    /\ FOLDER_PATH # None => lst = listing
    /\ FOLDER_PATH' = Folder
    /\ listing' = lst
    /\ config_file' = save_config(config_file, <<<<"folder_path", Folder>>,
                                                 <<"theme", current_theme>>>>)
    /\ Scanned(store, check_folder_for_ids(store, Folder, fsStatus, lst), FALSE)
    /\ connections' = Connections(refresh_connections(last'.scan))
    /\ handler_exit' = HandlerExit("none", "none")
    /\ UNCHANGED <<fsStatus, config, current_theme, backupVars, parserVars,
                   dataFileVars, call_stack>>

\* styles.PRESENT_MARKER (U+2713) and styles.MISSING_MARKER (U+2717), each
\* one character
PRESENT_MARKER == "U+2713"
MISSING_MARKER == "U+2717"

\* s.replace(old, ""): the occurrences of old are dropped, leftmost first
RECURSIVE str_remove(_, _)
str_remove(s, old) ==
    IF Len(s) < Len(old)
    THEN s
    ELSE IF SubSeq(s, 1, Len(old)) = old
         THEN str_remove(SubSeq(s, Len(old) + 1, Len(s)), old)
         ELSE <<Head(s)>> \o str_remove(Tail(s), old)

\* file_utils.strip_version_prefix
strip_version_prefix(version) ==
    IF ~Truthy(version)
    THEN None
    ELSE IF startswith(lower(strip(version)), "v")
         THEN Tail(strip(version))
         ELSE strip(version)

\* what edit_id puts in the dialog's ID field for a row's dlsite_id
edit_id_entry(dlsite_id) ==
    str_remove(str_remove(dlsite_id, <<PRESENT_MARKER, " ", "-", " ">>),
               <<MISSING_MARKER, " ", "-", " ">>)

\* what edit_id puts in the dialog's version field for a row's version
edit_version_entry(version_val) ==
    IF version_val \in {<<"-">>, <<>>}
    THEN <<>>
    ELSE IF Truthy(version_val)
         THEN strip_version_prefix(version_val)
         ELSE version_val

\* a double click on the row entry_id opens the edit dialog, and the user
\* presses Save without touching a field; the row's version is a string, as
\* in every row the dialogs wrote
edit_id_save(entry_id) ==
    /\ store[entry_id].version # None
    /\ save_changes(entry_id, edit_id_entry(store[entry_id].dlsite_id),
                    edit_version_entry(store[entry_id].version), store[entry_id].tested)

(***************************************************************************)
(* The file system under the configured folder, between two handlers       *)
(***************************************************************************)

EnvStep ==
    /\ last' = Outcome("none", "none", {}, FALSE)
    /\ connections' = Connections(<<>>)
    /\ handler_exit' = HandlerExit("none", "none")
    /\ UNCHANGED <<configVars, backupVars, parserVars, dataFileVars, call_stack>>

NoFiles == [f \in FileNames |-> "none"]

\* a name appears, disappears or changes kind
FolderChange(f, k) ==
    /\ FOLDER_PATH # None
    /\ fsStatus = "ok"
    /\ listing[f] # k
    /\ listing' = [listing EXCEPT ![f] = k]
    /\ EnvStep
    /\ UNCHANGED <<store, FOLDER_PATH, fsStatus>>

\* the folder is deleted, with all it holds
FolderRemoved ==
    /\ FOLDER_PATH # None
    /\ fsStatus # "missing"
    /\ fsStatus' = "missing"
    /\ listing' = NoFiles
    /\ EnvStep
    /\ UNCHANGED <<store, FOLDER_PATH>>

\* the folder is created again, empty
FolderCreated ==
    /\ FOLDER_PATH # None
    /\ fsStatus = "missing"
    /\ fsStatus' = "ok"
    /\ EnvStep
    /\ UNCHANGED <<store, FOLDER_PATH, listing>>

\* the folder stays but os.listdir on it now raises (permission withdrawn)
FolderLocked ==
    /\ FOLDER_PATH # None
    /\ fsStatus = "ok"
    /\ fsStatus' = "unlistable"
    /\ EnvStep
    /\ UNCHANGED <<store, FOLDER_PATH, listing>>

FolderUnlocked ==
    /\ FOLDER_PATH # None
    /\ fsStatus = "unlistable"
    /\ fsStatus' = "ok"
    /\ EnvStep
    /\ UNCHANGED <<store, FOLDER_PATH, listing>>

(***************************************************************************)
(* database.backup_database.  A file of db-backup is a record: backup says *)
(* whether its name is dlsite_ids_backup_<stamp>.db, mtime is its          *)
(* modification time.  Time is counted in seconds.                         *)
(***************************************************************************)

\* backup_files[3:] are deleted
KeepBackups == 3

BackupFile(stamp, mtime) == [backup |-> TRUE, stamp |-> stamp, mtime |-> mtime]

\* a file of another name that the user keeps in db-backup
ForeignFile == [backup |-> FALSE, stamp |-> 0, mtime |-> 0]

\* shutil.copy(DB_FILE, backup_file) at time t: a file of that name is
\* overwritten, and the copy's modification time is the time of the copy
copy_db(dir, t) ==
    {f \in dir : ~(f.backup /\ f.stamp = t)} \cup {BackupFile(t, t)}

\* the listing's filter on the prefix and the suffix of the name
backup_files(dir) == {f \in dir : f.backup}

\* (mtime, name) of g sorts after that of f
sorts_after(g, f) == g.mtime > f.mtime \/ (g.mtime = f.mtime /\ g.stamp > f.stamp)

\* the sort with reverse left out: oldest first
sort_index_ascending(files, f) == Cardinality({g \in files : sorts_after(f, g)})

\* the index of f in backup_files after sort(reverse=True)
sort_index(files, f) == Cardinality({g \in files : sorts_after(g, f)})

\* the files the loop over backup_files[3:] removes
old_backups(files) == {f \in files : sort_index(files, f) >= KeepBackups}

\* db-backup once the copy is made, before and after the old ones are removed
BackedUp(copied) ==
    [dir |-> copied \ old_backups(backup_files(copied)),
     deleted |-> old_backups(backup_files(copied))]

\* backup_database() at time t: db-backup afterwards, and what it deleted
backup_database(dir, t, db_exists) ==
    IF db_exists THEN BackedUp(copy_db(dir, t)) ELSE [dir |-> dir, deleted |-> {}]

(***************************************************************************)
(* database.setup_database.  The data file is the set of columns of the    *)
(* table dlsite_ids, empty when there is no table (no file), and the rows   *)
(***************************************************************************)

\* the columns CREATE TABLE gives dlsite_ids
table_columns == {"dlsite_id", "tested", "version", "marked"}

\* the columns of a table made before the column marked was introduced
legacy_columns == {"dlsite_id", "tested", "version"}

\* the data file: the columns of dlsite_ids and its rows
DataFile(cols, rows) == [columns |-> cols, rows |-> rows]

\* a row of a table without the column marked
LegacyRow(dlsite_id, tested, version) ==
    [dlsite_id |-> dlsite_id, tested |-> tested, version |-> version]

\* CREATE TABLE IF NOT EXISTS dlsite_ids (...), then PRAGMA table_info
table_info(cols) == IF cols = {} THEN table_columns ELSE cols

\* ADD COLUMN marked INTEGER DEFAULT 1
add_column_marked_one(rows) ==
    [r \in DOMAIN rows |-> Row(rows[r].dlsite_id, rows[r].tested, rows[r].version, 1)]

\* ALTER TABLE dlsite_ids ADD COLUMN marked INTEGER DEFAULT 0
add_column_marked(rows) ==
    [r \in DOMAIN rows |-> Row(rows[r].dlsite_id, rows[r].tested, rows[r].version, 0)]

\* the data file once setup_database has returned
setup_database(file) ==
    IF "marked" \notin table_info(file.columns)
    THEN DataFile(table_info(file.columns) \cup {"marked"}, add_column_marked(file.rows))
    ELSE DataFile(table_info(file.columns), file.rows)

\* the columns the last call read with PRAGMA table_info
SetupOutcome(cols) == [table_info |-> cols]

(***************************************************************************)
(* The specification                                                       *)
(***************************************************************************)

\* a fresh installation: no config.json, so main loads the defaults
FreshConfig ==
    /\ config_file = NoConfigFile
    /\ config = load_config(config_file).config
    /\ current_theme = config["theme"]

\* main has made the first backup of the new data file
FirstBackup ==
    /\ now = 0
    /\ backup_dir = backup_database({}, 0, TRUE).dir
    /\ columns = table_columns
    /\ backup_copy = DataFile(table_columns, EmptyStore)

\* no file name has been parsed
NothingParsed ==
    /\ dir_entry = <<>>
    /\ parse_result = <<>>

\* a fresh installation: no config.json, an empty table, the window built
Init ==
    /\ store = EmptyStore
    /\ FOLDER_PATH = None
    /\ fsStatus = "ok"
    /\ listing = NoFiles
    /\ last = Outcome("none", "none", {}, FALSE)
    /\ connections = Connections(<<>>)
    /\ handler_exit = HandlerExit("none", "none")
    /\ call_stack = <<>>
    /\ FreshConfig
    /\ FirstBackup
    /\ NothingParsed

Next ==
    \/ \E i \in IdInputs, v \in VersionInputs, t \in TestedValues : save_id(i, v, t)
    \/ \E e \in DOMAIN store, i \in IdInputs, v \in VersionInputs, t \in TestedValues :
          save_changes(e, i, v, t)
    \/ \E e \in DOMAIN store : remove_entry(e)
    \/ refresh_table
    \/ \E lst \in [FileNames -> Kinds] : save_folder_path(lst)
    \/ \E f \in FileNames, k \in Kinds : FolderChange(f, k)
    \/ FolderRemoved
    \/ FolderCreated
    \/ FolderLocked
    \/ FolderUnlocked

Spec == Init /\ [][Next]_vars

(***************************************************************************)
(* The add and edit dialogs alone, with more of what the version field     *)
(* accepts: the Entry widget takes any text                                *)
(***************************************************************************)

TypedVersions == {<<>>, <<"1">>, <<"V", "1">>, <<" ", "1">>, <<"x">>}

NextTyped ==
    \/ \E i \in IdInputs, v \in TypedVersions, t \in TestedValues : save_id(i, v, t)
    \/ \E e \in DOMAIN store, i \in IdInputs, v \in TypedVersions, t \in TestedValues :
          save_changes(e, i, v, t)
    \/ \E e \in DOMAIN store : remove_entry(e)
    \/ \E e \in DOMAIN store : edit_id_save(e)

SpecTyped == Init /\ [][NextTyped]_vars

(***************************************************************************)
(* The body of the scan's loop on one name of the folder, for names put    *)
(* together from a few pieces                                              *)
(***************************************************************************)

\* how many pieces a name has at most
MaxPieces == 3

Pieces == {RJ1, <<"a">>, <<"(", "1", ")">>, <<"(", "v", "1", ")">>,
           <<"(", "1", ".", "2", ")">>, <<"(", "v", "1", ".", "2", ")">>,
           <<"(", "x", ")">>, <<".", "z">>}

RECURSIVE Join(_)
Join(pieces) == IF pieces = <<>> THEN <<>> ELSE Head(pieces) \o Join(Tail(pieces))

ParseNames == {Join(ps) : ps \in UNION {[1..n -> Pieces] : n \in 0..MaxPieces}}

\* a record of RJ1 without version and one of RJ1 with v1, both absent
TwoRows == <<Row(RJ1, "No", <<>>, 0), Row(RJ1, "No", v1, 0)>>

\* one pass of the loop: the name is parsed and the row it matches is marked
scan_file ==
    /\ parse_result = <<>>
    /\ parse_result' = extract_id_and_version(dir_entry)
    /\ store' = mark_parsed(store, parse_result')
    /\ UNCHANGED <<FOLDER_PATH, fsStatus, listing, last, connections, dir_entry,
                   configVars, backupVars, handler_exit, dataFileVars, call_stack>>

\* the scan has reset the flags and is about to process the name dir_entry
InitParser ==
    /\ dir_entry \in ParseNames
    /\ parse_result = <<>>
    /\ store = TwoRows
    /\ FOLDER_PATH = Folder
    /\ fsStatus = "ok"
    /\ listing = NoFiles
    /\ last = Outcome("none", "none", {}, FALSE)
    /\ connections = Connections(<<"open">>)
    /\ handler_exit = HandlerExit("none", "none")
    /\ call_stack = <<>>
    /\ FreshConfig
    /\ FirstBackup

NextParser == scan_file

SpecParser == InitParser /\ [][NextParser]_vars

(***************************************************************************)
(* Runs of setup_database on the data files a start may find               *)
(***************************************************************************)

call_setup_database ==
    /\ columns' = setup_database(DataFile(columns, store)).columns
    /\ store' = setup_database(DataFile(columns, store)).rows
    /\ last' = SetupOutcome(table_info(columns))
    /\ UNCHANGED <<FOLDER_PATH, fsStatus, listing, connections, configVars, backupVars,
                   parserVars, handler_exit, backup_copy, call_stack>>

\* the rows save_id and save_changes can write and the scan can mark
DialogRows ==
    {Row(i, t, v, m) : i \in {RJ1, rj1}, t \in TestedValues, v \in {<<>>, v1}, m \in {0, 1}}

\* the rows of a table without the column marked
LegacyRows ==
    {LegacyRow(i, t, v) : i \in {RJ1, rj1}, t \in TestedValues, v \in {None, <<>>, v1}}

\* the data files a start of the program may find: none, one of a version
\* without the column marked, and one this version left
DataFiles ==
    {DataFile({}, EmptyStore)}
    \cup {DataFile(legacy_columns, rows) :
             rows \in UNION {[1..n -> LegacyRows] : n \in 0..MaxRowid}}
    \cup {DataFile(table_columns, rows) :
             rows \in UNION {[1..n -> DialogRows] : n \in 0..MaxRowid}}

InitSetup ==
    /\ \E file \in DataFiles : columns = file.columns /\ store = file.rows
    /\ last = SetupOutcome({})
    /\ backup_copy = DataFile(table_columns, EmptyStore)
    /\ FOLDER_PATH = None
    /\ fsStatus = "ok"
    /\ listing = NoFiles
    /\ connections = Connections(<<>>)
    /\ handler_exit = HandlerExit("none", "none")
    /\ call_stack = <<>>
    /\ FreshConfig
    /\ now = 0
    /\ backup_dir = {}
    /\ NothingParsed

NextSetup == call_setup_database

SpecSetup == InitSetup /\ [][NextSetup]_vars

(***************************************************************************)
(* Startups of the program over time: main makes the data file exist       *)
(* (setup_database) and calls backup_database                              *)
(***************************************************************************)

\* the last second of the clock
MaxTime == 6

\* what the last call of backup_database removed
BackupOutcome(deleted) == [deleted |-> deleted]

\* the program is started at the time now: main calls setup_database() and
\* then backup_database(), which copies the data file as it is by then
startup ==
    /\ columns' = setup_database(DataFile(columns, store)).columns
    /\ store' = setup_database(DataFile(columns, store)).rows
    /\ backup_dir' = backup_database(backup_dir, now, TRUE).dir
    /\ backup_copy' = DataFile(columns', store')
    /\ last' = BackupOutcome(backup_database(backup_dir, now, TRUE).deleted)
    /\ UNCHANGED <<FOLDER_PATH, fsStatus, listing, connections, now,
                   configVars, parserVars, handler_exit, call_stack>>

\* a second passes
Tick ==
    /\ now < MaxTime
    /\ now' = now + 1
    /\ UNCHANGED <<store, FOLDER_PATH, fsStatus, listing, last, connections, backup_dir,
                   configVars, parserVars, handler_exit, dataFileVars, call_stack>>

\* the data files the first startup may find: none, one of a version without
\* the column marked, and one this version left
StartupFiles ==
    {DataFile({}, EmptyStore),
     DataFile(legacy_columns, <<LegacyRow(RJ1, "Yes", v1)>>),
     DataFile(table_columns, <<Row(RJ1, "Yes", v1, 1)>>)}

\* before the first startup: db-backup does not exist, or the user keeps a
\* file of another name in it, and no copy of the data file has been made
InitBackup ==
    /\ now = 0
    /\ backup_dir \in {{}, {ForeignFile}}
    /\ last = BackupOutcome({})
    /\ \E file \in StartupFiles : columns = file.columns /\ store = file.rows
    /\ backup_copy = DataFile({}, EmptyStore)
    /\ FOLDER_PATH = None
    /\ fsStatus = "ok"
    /\ listing = NoFiles
    /\ connections = Connections(<<>>)
    /\ handler_exit = HandlerExit("none", "none")
    /\ call_stack = <<>>
    /\ FreshConfig
    /\ NothingParsed

NextBackup ==
    \/ startup
    \/ Tick

SpecBackup == InitBackup /\ [][NextBackup]_vars

(***************************************************************************)
(* load_config and save_config on what config.json may hold and on the     *)
(* dicts the program saves                                                 *)
(***************************************************************************)

FolderPairs == {<<"folder_path", None>>, <<"folder_path", Folder>>}
DebugPairs == {<<"debug_enabled", FALSE>>, <<"debug_enabled", TRUE>>}
ThemePairs == {<<"theme", "light">>, <<"theme", "dark">>}

\* config = {'debug_enabled': ..., 'theme': ..., 'folder_path': ...}
SettingsDicts == {<<d, t, f>> : d \in DebugPairs, t \in ThemePairs, f \in FolderPairs}

\* config = {'folder_path': ..., 'theme': ...}
FolderDicts == {<<f, t>> : f \in FolderPairs, t \in ThemePairs}

\* an array element that is not a pair
NotAPair == <<"x">>

\* JSON objects with some of the keys, as a user may have left them
PartialObjects == {<<>>, <<<<"theme", "dark">>>>, <<<<"folder_path", Folder>>>>}

JsonArrays == {<<>>, <<NotAPair>>, <<<<"theme", "dark">>>>, <<<<"theme", "dark">>, NotAPair>>}

\* what config.json may be
ConfigFiles ==
    {NoConfigFile,
     ConfigFile("unreadable", Json("scalar", <<>>)),
     ConfigFile("garbage", Json("scalar", <<>>)),
     ConfigFile("json", Json("scalar", <<>>))}
    \cup {ConfigFile("json", Json("array", a)) : a \in JsonArrays}
    \cup {ConfigFile("json", Json("object", o)) : o \in SettingsDicts \cup PartialObjects}

\* the file load_config read and whether it printed an error
LoadOutcome(file, error) == [file |-> file, error |-> error]

\* config = load_config()
call_load_config ==
    /\ config' = load_config(config_file).config
    /\ last' = LoadOutcome(config_file, load_config(config_file).error)
    /\ UNCHANGED <<store, FOLDER_PATH, fsStatus, listing, connections, config_file,
                   current_theme, backupVars, parserVars, handler_exit, dataFileVars,
                   call_stack>>

\* save_config(cfg)
call_save_config(cfg) ==
    /\ config_file' = save_config(config_file, cfg)
    /\ UNCHANGED <<store, FOLDER_PATH, fsStatus, listing, last, connections, config,
                   current_theme, backupVars, parserVars, handler_exit, dataFileVars,
                   call_stack>>

\* the user, or another program, replaces config.json
ConfigEdited(file) ==
    /\ config_file' = file
    /\ UNCHANGED <<store, FOLDER_PATH, fsStatus, listing, last, connections, config,
                   current_theme, backupVars, parserVars, handler_exit, dataFileVars,
                   call_stack>>

\* a fresh installation: main has loaded the defaults
InitConfig ==
    /\ FreshConfig
    /\ last = LoadOutcome(config_file, load_config(config_file).error)
    /\ store = EmptyStore
    /\ FOLDER_PATH = None
    /\ fsStatus = "ok"
    /\ listing = NoFiles
    /\ connections = Connections(<<>>)
    /\ handler_exit = HandlerExit("none", "none")
    /\ call_stack = <<>>
    /\ FirstBackup
    /\ NothingParsed

NextConfig ==
    \/ call_load_config
    \/ \E cfg \in SettingsDicts \cup FolderDicts : call_save_config(cfg)
    \/ \E file \in ConfigFiles : ConfigEdited(file)

SpecConfig == InitConfig /\ [][NextConfig]_vars

(***************************************************************************)
(* database.add_or_update_id on the stores the dialogs can leave           *)
(***************************************************************************)

\* UPDATE dlsite_ids SET version = ?, tested = ? WHERE dlsite_id = ?
sql_update_by_id(db, dlsite_id, version, tested) ==
    [r \in DOMAIN db |->
        IF db[r].dlsite_id = dlsite_id
        THEN [db[r] EXCEPT !.version = version, !.tested = tested]
        ELSE db[r]]

\* the function after the two assignments that normalise its arguments
add_or_update(db, dlsite_id, version, tested) ==
    IF fetchone({r \in DOMAIN db : db[r].dlsite_id = dlsite_id}) # 0
    THEN sql_update_by_id(db, dlsite_id, version, tested)
    ELSE sql_insert(db, dlsite_id, version, tested)

\* the table once add_or_update_id(dlsite_id, version, tested) has returned
add_or_update_id(db, dlsite_id, version, tested) ==
    add_or_update(db, upper(strip(dlsite_id)),
                  IF Truthy(version) THEN strip(version) ELSE <<>>, tested)

\* the arguments a caller may pass
IdArgs == {RJ1, rj1, <<" ", "R", "J", "1">>}
VersionArgs == {None, v1, <<"v", "2", " ">>}

\* the arguments of the last call
CallOutcome(dlsite_id, version, tested) ==
    [dlsite_id |-> dlsite_id, version |-> version, tested |-> tested]

call_add_or_update_id(dlsite_id, version, tested) ==
    /\ NextRowid(store) <= MaxRowid
         \/ \E r \in DOMAIN store : store[r].dlsite_id = upper(strip(dlsite_id))
    /\ store' = add_or_update_id(store, dlsite_id, version, tested)
    /\ last' = CallOutcome(dlsite_id, version, tested)
    /\ connections' = Connections(OpenClose)
    /\ UNCHANGED <<FOLDER_PATH, fsStatus, listing, configVars, backupVars, parserVars,
                   handler_exit, dataFileVars, call_stack>>

\* no two rows of db hold the same (dlsite_id, version)
UniquePairs(db) ==
    \A r1, r2 \in DOMAIN db :
        r1 # r2 => <<db[r1].dlsite_id, db[r1].version>> # <<db[r2].dlsite_id, db[r2].version>>

\* a table the dialogs have left, which satisfies the uniqueness invariant
InitAddOrUpdate ==
    /\ \E rowids \in SUBSET (1..MaxRowid) :
          /\ store \in [rowids -> DialogRows]
          /\ UniquePairs(store)
    /\ FOLDER_PATH = None
    /\ fsStatus = "ok"
    /\ listing = NoFiles
    /\ last = CallOutcome(<<>>, None, "No")
    /\ connections = Connections(<<>>)
    /\ handler_exit = HandlerExit("none", "none")
    /\ call_stack = <<>>
    /\ FreshConfig
    /\ FirstBackup
    /\ NothingParsed

NextAddOrUpdate ==
    \E i \in IdArgs, v \in VersionArgs, t \in TestedValues : call_add_or_update_id(i, v, t)

SpecAddOrUpdate == InitAddOrUpdate /\ [][NextAddOrUpdate]_vars

(***************************************************************************)
(* refresh_table and check_folder_for_ids statement by statement: the      *)
(* frames of the two functions on Python's call stack, the innermost last  *)
(***************************************************************************)

\* how deep the stack may grow
MaxDepth == 6

\* a frame of fn, called with check_folder (refresh_table only), at pc
Frame(fn, check_folder, pc) == [fn |-> fn, check_folder |-> check_folder, pc |-> pc]

\* the scan's call back passes check_folder=True
nested_check_folder_true == TRUE

\* the argument of the scan's call back: refresh_table(check_folder=False)
nested_check_folder == FALSE

\* what the running call has done: how many scans it started, how many
\* refresh_table frames were on the stack at most, and whether it returned
CallTrace(scans, refreshes, returned) ==
    [scans |-> scans, refreshes |-> refreshes, returned |-> returned]

\* the number of refresh_table frames on the stack
refresh_frames(stack) ==
    Cardinality({i \in DOMAIN stack : stack[i].fn = "refresh_table"})

\* the stack with its innermost frame at pc
at_pc(stack, pc) == [stack EXCEPT ![Len(stack)].pc = pc]

\* the stack once the innermost frame has returned
return(stack) == SubSeq(stack, 1, Len(stack) - 1)

\* the frame a call pushes is on the stack
Called(stack) ==
    /\ call_stack' = stack
    /\ last' = CallTrace(last.scans,
                         IF refresh_frames(stack) > last.refreshes
                         THEN refresh_frames(stack) ELSE last.refreshes,
                         FALSE)

\* the innermost frame returns
Returned ==
    /\ call_stack' = return(call_stack)
    /\ last' = CallTrace(last.scans, last.refreshes, return(call_stack) = <<>>)

\* the connections so far and those of events
more_connections(events) ==
    [opened |-> connections.opened + Connections(events).opened,
     closed |-> connections.closed + Connections(events).closed]

\* a handler calls refresh_table(), with the default check_folder=True
call_refresh_table ==
    /\ call_stack = <<>>
    /\ call_stack' = <<Frame("refresh_table", TRUE, "start")>>
    /\ last' = CallTrace(0, 1, FALSE)
    /\ connections' = Connections(<<>>)
    /\ UNCHANGED <<store, FOLDER_PATH, fsStatus, listing, configVars, backupVars,
                   parserVars, handler_exit, dataFileVars>>

\* refresh_table up to its call of the scan
refresh_table_start ==
    /\ call_stack # <<>>
    /\ call_stack[Len(call_stack)].fn = "refresh_table"
    /\ call_stack[Len(call_stack)].pc = "start"
    /\ IF call_stack[Len(call_stack)].check_folder
       THEN /\ Len(call_stack) < MaxDepth
            /\ Called(at_pc(call_stack, "select")
                      \o <<Frame("check_folder_for_ids", FALSE, "start")>>)
       ELSE Called(at_pc(call_stack, "select"))
    /\ UNCHANGED <<store, FOLDER_PATH, fsStatus, listing, connections, configVars,
                   backupVars, parserVars, handler_exit, dataFileVars>>

\* refresh_table from the deletion of the table's items to its return
refresh_table_select ==
    /\ call_stack # <<>>
    /\ call_stack[Len(call_stack)].fn = "refresh_table"
    /\ call_stack[Len(call_stack)].pc = "select"
    /\ Returned
    /\ connections' = more_connections(OpenClose)
    /\ UNCHANGED <<store, FOLDER_PATH, fsStatus, listing, configVars, backupVars,
                   parserVars, handler_exit, dataFileVars>>

\* check_folder_for_ids up to its return on a bad folder or a failed
\* listing, or up to its call of refresh_table
check_folder_start ==
    /\ call_stack # <<>>
    /\ call_stack[Len(call_stack)].fn = "check_folder_for_ids"
    /\ call_stack[Len(call_stack)].pc = "start"
    /\ store' = check_folder_for_ids(store, FOLDER_PATH, fsStatus, listing).db
    /\ IF check_folder_for_ids(store, FOLDER_PATH, fsStatus, listing).scan = "done"
       THEN /\ Len(call_stack) < MaxDepth
            /\ call_stack' = at_pc(call_stack, "return")
                             \o <<Frame("refresh_table", nested_check_folder, "start")>>
            /\ connections' = more_connections(OpenClose)
       ELSE /\ call_stack' = return(call_stack)
            /\ connections' = more_connections(
                  IF check_folder_for_ids(store, FOLDER_PATH, fsStatus, listing).scan = "failed"
                  THEN <<"open">> ELSE <<>>)
    /\ last' = CallTrace(last.scans + 1,
                         IF refresh_frames(call_stack') > last.refreshes
                         THEN refresh_frames(call_stack') ELSE last.refreshes,
                         FALSE)
    /\ UNCHANGED <<FOLDER_PATH, fsStatus, listing, configVars, backupVars,
                   parserVars, handler_exit, dataFileVars>>

\* check_folder_for_ids returns after its call of refresh_table
check_folder_return ==
    /\ call_stack # <<>>
    /\ call_stack[Len(call_stack)].fn = "check_folder_for_ids"
    /\ call_stack[Len(call_stack)].pc = "return"
    /\ Returned
    /\ UNCHANGED <<store, FOLDER_PATH, fsStatus, listing, connections, configVars,
                   backupVars, parserVars, handler_exit, dataFileVars>>

\* a table of at most one row
RefreshStores == {EmptyStore} \cup {<<row>> : row \in DialogRows}

\* no folder configured, or the folder with what it holds
InitRefresh ==
    /\ store \in RefreshStores
    /\ FOLDER_PATH \in {None, Folder}
    /\ fsStatus \in {"ok", "missing", "unlistable"}
    /\ listing \in [FileNames -> Kinds]
    /\ FOLDER_PATH = None => fsStatus = "ok"
    /\ FOLDER_PATH = None \/ fsStatus = "missing" => listing = NoFiles
    /\ call_stack = <<>>
    /\ last = CallTrace(0, 0, FALSE)
    /\ connections = Connections(<<>>)
    /\ handler_exit = HandlerExit("none", "none")
    /\ FreshConfig
    /\ FirstBackup
    /\ NothingParsed

\* a statement of the running call
CallStep ==
    \/ refresh_table_start
    \/ refresh_table_select
    \/ check_folder_start
    \/ check_folder_return

NextRefresh ==
    \/ call_refresh_table
    \/ CallStep

\* Python runs a call's statements one after the other until it returns
SpecRefresh == InitRefresh /\ [][NextRefresh]_vars /\ WF_vars(CallStep)

(***************************************************************************)
(* Properties                                                              *)
(***************************************************************************)

NoVersion(version) == version = None \/ version = <<>>

\* the file name parses to the row's identifier and to the row's version, a
\* NULL and an empty version both counting as no version
FileMatches(f, row) ==
    /\ ParsedName[f][1] = row.dlsite_id
    /\ IF NoVersion(row.version)
       THEN ParsedName[f][2] = None
       ELSE ParsedName[f][2] = row.version

\* some regular file directly in the folder matches the row
HasMatchingFile(row) == \E f \in FileNames : listing[f] = "file" /\ FileMatches(f, row)

PresentSet(db) == {r \in DOMAIN db : db[r].marked = 1}

\* C1: no two records of the store share the same (identifier, version) pair,
\* after any sequence of adds, edits, deletions and scans from the empty store.
C1_UniquePairs ==
    \A r1, r2 \in DOMAIN store :
        r1 # r2 => <<store[r1].dlsite_id, store[r1].version>>
                     # <<store[r2].dlsite_id, store[r2].version>>

\* two records that share the identifier and differ in the version, a scan done
C1_Witness ==
    /\ last.scan = "done"
    /\ \E r1, r2 \in DOMAIN store :
          /\ r1 # r2
          /\ store[r1].dlsite_id = store[r2].dlsite_id
          /\ store[r1].version # store[r2].version

C3_PresentOnlyIfMatched ==
    last.scan = "done" =>
        /\ \A r \in DOMAIN store : store[r].marked = 1 => HasMatchingFile(store[r])
        /\ \A r \in DOMAIN store :
              (store[r].version = <<>> /\ store[r].marked = 1) =>
                  \E f \in FileNames : /\ listing[f] = "file"
                                       /\ ParsedName[f][1] = store[r].dlsite_id
                                       /\ ParsedName[f][2] = None

\* a completed scan with RJ1.z a subdirectory and RJ1(v1).z a regular file: the
\* record (RJ1, v1) is present, the record (RJ1, no version) is not
C3_Witness ==
    /\ last.scan = "done"
    /\ listing[FileA] = "dir"
    /\ listing[FileB] = "file"
    /\ \E r1, r2 \in DOMAIN store :
          /\ store[r1].dlsite_id = RJ1 /\ store[r1].version = <<>> /\ store[r1].marked = 0
          /\ store[r2].dlsite_id = RJ1 /\ store[r2].version = v1 /\ store[r2].marked = 1

\* C4: when the configured folder is unset, missing or cannot be listed, the
\* scan leaves every record, present flags included, exactly as it was.
C4_BadFolderScanIsNoop ==
    [][(refresh_table /\ (FOLDER_PATH = None \/ fsStatus \in {"missing", "unlistable"}))
          => store' = store]_vars

\* C5, as claimed: every scan resets all present flags before it marks, so a
\* record present before a scan and without matching file at that time is
\* absent once the scan returns.
C5_EveryScanResets ==
    [][refresh_table =>
          \A r \in DOMAIN store :
              (store[r].marked = 1 /\ ~(fsStatus = "ok" /\ HasMatchingFile(store[r])))
                  => store'[r].marked = 0]_vars

\* C5, amended: every scan of a folder that is set and exists resets all
\* present flags before it marks, so a record present before such a scan and
\* without matching file at that time is absent once the scan returns.
C5_ExistingFolderScanResets ==
    [][(refresh_table /\ FOLDER_PATH # None /\ fsStatus # "missing") =>
          \A r \in DOMAIN store :
              (store[r].marked = 1 /\ ~(fsStatus = "ok" /\ HasMatchingFile(store[r])))
                  => store'[r].marked = 0]_vars

\* a scan of an existing folder has just turned a present flag off
C5_Witness ==
    /\ last.scan \in {"done", "failed"}
    /\ last.cleared # {}
    /\ \A r \in last.cleared : r \in DOMAIN store /\ store[r].marked = 0

\* C6: right after a user operation that invoked the scan, a record whose
\* present flag is true has a current (identifier, version) pair for which
\* that scan found a matching file (a scan that returned at the folder check
\* or at os.listdir found none).
C6_PresentFoundByLastScan ==
    last.scan # "none" =>
        \A r \in DOMAIN store :
            store[r].marked = 1 => (last.scan = "done" /\ HasMatchingFile(store[r]))

\* C7: a scan that directly follows a scan, with the folder and the records as
\* the first one left them, leaves the same set of present records.
C7_ScanIdempotent ==
    [][(last.scan # "none" /\ refresh_table) => PresentSet(store') = PresentSet(store)]_vars

\* a scan has completed and left one record present and another absent
C7_Witness ==
    /\ last.scan = "done"
    /\ \E r1, r2 \in DOMAIN store : store[r1].marked = 1 /\ store[r2].marked = 0

\* the rows of db and of after are the same but for the present flags
SameButPresent(db, after) ==
    /\ DOMAIN after = DOMAIN db
    /\ \A r \in DOMAIN db : /\ after[r].dlsite_id = db[r].dlsite_id
                            /\ after[r].version = db[r].version
                            /\ after[r].tested = db[r].tested

\* C8: a scan inserts no record, deletes none and changes no identifier,
\* version or tested flag, whatever the folder holds.
C8_ScanChangesOnlyPresent ==
    [][(refresh_table \/ save_folder_path(listing')) => SameButPresent(store, store')]_vars

\* a completed scan that marked a record while the folder held a regular file
\* no record matches
C8_Witness ==
    /\ last.scan = "done"
    /\ PresentSet(store) # {}
    /\ \E f \in FileNames :
          listing[f] = "file" /\ \A r \in DOMAIN store : ~FileMatches(f, store[r])

\* C9: an insert or an update whose (identifier, version) pair is that of
\* another existing record is rejected: the error is shown and no record is
\* inserted or modified.
C9_DuplicateRejected ==
    [][last'.taken => (store' = store /\ last'.msg = MsgDuplicate)]_vars

\* a save of a pair that another row held was rejected as a duplicate
C9_Witness == last.taken /\ last.msg = MsgDuplicate /\ last.scan = "none"

\* C10: every identifier in the store is in upper case.
C10_IdentifiersUpperCase ==
    \A r \in DOMAIN store : store[r].dlsite_id = upper(store[r].dlsite_id)

\* the canonical form of a version: a lower-case v and a numeric token
Canonical(version) ==
    /\ Len(version) >= 2
    /\ version[1] = "v"
    /\ IsNumTok(Tail(version))

\* C11: after any sequence of adds and edits, whatever was typed in the
\* version field, every version in the store is empty or canonical: "v" and
\* a numeric token, without whitespace.
C11_VersionsCanonical ==
    \A r \in DOMAIN store : store[r].version = <<>> \/ Canonical(store[r].version)

\* the name contains the literal RJ followed by at least one digit
ContainsId(name) == rj_starts(name) # {}

\* the name with a v put in front of the token of the group that opens at h[1]
WithV(name, h) == SubSeq(name, 1, h[1]) \o <<"v">> \o SubSeq(name, h[1] + 1, Len(name))

\* h is the leftmost parenthesized version group of the name
IsFirstGroup(name, h) == \A g \in paren_hits(name, TRUE) : h[1] <= g[1]

\* C12: a name in which the parser finds an identifier and whose version
\* group is "(t)", t a numeric token, parses to the version "v" + t, and so
\* does the name written with "(vt)".
C12_TokenWithAndWithoutV ==
    (parse_result # <<>> /\ parse_result[1] # None) =>
        \A h \in paren_hits(dir_entry, FALSE) :
            IsFirstGroup(dir_entry, h) =>
                /\ parse_result[2] = <<"v">> \o paren_group(dir_entry, h)
                /\ extract_id_and_version(WithV(dir_entry, h))[2]
                       = <<"v">> \o paren_group(dir_entry, h)

\* C13: the parser returns no identifier and no version for a name without
\* RJ and a digit, returns an identifier for a name with one, and the scan
\* marks no record for a name that yields no identifier.
C13_IdentifierIffPresent ==
    parse_result # <<>> =>
        /\ ~ContainsId(dir_entry) => parse_result = <<None, None>>
        /\ ContainsId(dir_entry) => parse_result[1] # None
        /\ parse_result[1] = None => PresentSet(store) = {}

\* the token of a group without its v
WithoutV(token) == IF startswith(token, "v") THEN Tail(token) ELSE token

\* C14: for a name in which the parser finds an identifier, the version is
\* "v" and the token of the leftmost parenthesized group that holds a numeric
\* token with or without a v in front, and there is no version when no group
\* does.
C14_FirstGroupIsVersion ==
    (parse_result # <<>> /\ parse_result[1] # None) =>
        IF paren_hits(dir_entry, TRUE) = {}
        THEN parse_result[2] = None
        ELSE parse_result[2]
                = <<"v">> \o WithoutV(paren_leftmost(dir_entry, paren_hits(dir_entry, TRUE)))

\* C15: when backup_database returns at a startup, db-backup holds at most
\* three backup files, the backup just made is one of them, and every backup
\* it deleted is older than every backup it kept.
C15_ThreeNewestBackupsKept ==
    [][startup =>
          /\ Cardinality(backup_files(backup_dir')) <= 3
          /\ BackupFile(now, now) \in backup_dir'
          /\ \A d \in last'.deleted, k \in backup_files(backup_dir') : d.mtime < k.mtime
          /\ last'.deleted = (backup_files(backup_dir) \cup {BackupFile(now, now)}) \ backup_dir'
      ]_vars

\* a startup has deleted the oldest backup and kept three, beside the user's
\* own file
C15_Witness ==
    /\ last.deleted # {}
    /\ Cardinality(backup_files(backup_dir)) = 3
    /\ BackupFile(now, now) \in backup_dir
    /\ ForeignFile \in backup_dir

\* the configured folder has been deleted or cannot be listed
BadFolder == FOLDER_PATH # None /\ fsStatus \in {"missing", "unlistable"}

\* C16: a refresh (and its scan) with a bad folder path, a save of a pair that
\* another record holds and a save with an empty identifier each end with a
\* modal message shown and the store unchanged.
C16_FailuresShowModal ==
    [][(\/ refresh_table /\ BadFolder
        \/ last'.taken
        \/ \E v \in VersionInputs, t \in TestedValues : save_id(<<>>, v, t)
        \/ \E e \in DOMAIN store, v \in VersionInputs, t \in TestedValues :
              save_changes(e, <<>>, v, t))
          => (last'.msg # "none" /\ store' = store)]_vars

\* C17: what load_config returns holds folder_path, debug_enabled and theme,
\* and is the defaults (no folder, debug off, light theme) whenever the file
\* was missing or unreadable or the load failed with a logged error.
C17_LoadFallsBackToDefaults ==
    /\ required_keys \subseteq DOMAIN config
    /\ (last.file.kind \in {"missing", "unreadable", "garbage"} \/ last.error)
          => config = default_config

\* C19: when save_folder_path(p) has returned, config.json records p: a
\* following load_config returns folder_path = p.
C19_FolderPathSaved ==
    [][save_folder_path(listing') =>
          load_config(config_file').config["folder_path"] = FOLDER_PATH']_vars

\* C18: every handler has called close() on each connection it opened by the
\* time it returns, on every path.
C18_ConnectionsClosed == connections.closed = connections.opened

\* C20: add_or_update_id(id, version, tested) on a store without two records
\* of one (identifier, version) pair leaves such a store, which holds a record
\* with the upper-cased trimmed identifier, the trimmed version and the given
\* tested value, and in which every record of another identifier is as it was.
C20_AddOrUpdateKeepsUnique ==
    [][UniquePairs(store) =>
          /\ UniquePairs(store')
          /\ \E r \in DOMAIN store' :
                /\ store'[r].dlsite_id = upper(strip(last'.dlsite_id))
                /\ store'[r].version
                      = (IF Truthy(last'.version) THEN strip(last'.version) ELSE <<>>)
                /\ store'[r].tested = last'.tested
          /\ \A r \in DOMAIN store :
                store[r].dlsite_id # upper(strip(last'.dlsite_id))
                    => (r \in DOMAIN store' /\ store'[r] = store[r])]_vars

\* C21: save_id called with a non-empty identifier and an (identifier,
\* version) pair that no record holds inserts exactly one record, refreshes
\* the table, closes the add dialog and returns without raising an error.
C21_SaveIdReturnsNormally ==
    [][\A i \in IdInputs, v \in VersionInputs, t \in TestedValues :
          (/\ save_id(i, v, t)
           /\ Truthy(i)
           /\ ~PairTaken(store, i, standardize_version(v), 0))
          => /\ Cardinality(DOMAIN store') = Cardinality(DOMAIN store) + 1
             /\ last'.scan # "none"
             /\ handler_exit' = HandlerExit("none", "destroyed")]_vars

\* C22: opening the edit dialog on a stored record and saving without
\* changing a field is not rejected and leaves the record's identifier,
\* version and tested flag as they were.
C22_EditWithoutChangeKeepsRecord ==
    [][\A e \in DOMAIN store :
          edit_id_save(e)
          => /\ last'.msg = "none"
             /\ store'[e].dlsite_id = store[e].dlsite_id
             /\ store'[e].version = store[e].version
             /\ store'[e].tested = store[e].tested]_vars

\* C23: setup_database keeps every row's identifier, tested flag and version,
\* leaves a table with the column marked in which the rows of a table
\* without it have marked = 0, changes nothing in a table that has the
\* column, and a second run changes nothing.
C23_SetupAdditiveIdempotent ==
    [][call_setup_database
       => /\ DOMAIN store' = DOMAIN store
          /\ \A r \in DOMAIN store :
                /\ store'[r].dlsite_id = store[r].dlsite_id
                /\ store'[r].tested = store[r].tested
                /\ store'[r].version = store[r].version
          /\ "marked" \in columns'
          /\ \A r \in DOMAIN store' : "marked" \in DOMAIN store'[r]
          /\ "marked" \notin columns /\ columns # {} => \A r \in DOMAIN store' : store'[r].marked = 0
          /\ "marked" \in columns => store' = store /\ columns' = columns
          /\ setup_database(DataFile(columns', store')) = DataFile(columns', store')]_vars

\* setup_database has added the column to a table that holds rows
C23_Witness ==
    /\ last = SetupOutcome(legacy_columns)
    /\ store # EmptyStore
    /\ columns = table_columns
    /\ \A r \in DOMAIN store : store[r].marked = 0

\* C24: the startup backup is taken before the session writes to the data
\* file: when the program is started on an existing data file, the newest
\* backup holds that file as the previous session left it.
C24_BackupBeforeWrites ==
    [][startup /\ columns # {} => backup_copy' = DataFile(columns, store)]_vars

\* C25: a call refresh_table(check_folder=True) returns, and it has then
\* started exactly one scan; at no time are there more than two
\* refresh_table frames (the call and one nested refresh) or more than one
\* check_folder_for_ids frame on the stack.
C25_RefreshScansOnce ==
    /\ [](/\ refresh_frames(call_stack) <= 2
          /\ Len(call_stack) - refresh_frames(call_stack) <= 1
          /\ last.returned => last.scans = 1)
    /\ (call_stack # <<>>) ~> (call_stack = <<>>)

\* a call has returned whose scan completed and called refresh_table back
C25_Witness ==
    /\ call_stack = <<>>
    /\ last.returned
    /\ last.scans = 1
    /\ last.refreshes = 2

=============================================================================
